---- MODULE Spec2Model ----
(***************************************************************************)
(* Runestone wire codec of bitcoin-taproot-start: the VarInt encoder of    *)
(* src/runes_builder.rs, the VarInt decoder, the script push scanner and   *)
(* the tag/value parser of src/rune_decode.rs, and RunesBuilder.           *)
(*                                                                         *)
(* A byte is a number in 0..255.  A u128 is its 16 little-endian bytes, a  *)
(* sequence of length 16, so that values of the full 128-bit range are     *)
(* representable and `as u16`, `to_le_bytes`, `from_le_bytes` are what     *)
(* they are in the code: operations on those bytes.                        *)
(***************************************************************************)
EXTENDS Integers, Sequences, FiniteSets, TLC

VARIABLES
    input,          \* the argument the modelled call was given
    pc,             \* position of the modelled call
    builder,        \* RunesBuilder.fields: sequence of <<tag, value>>
    bytes,          \* parse_script_hex: the decoded script
    pos,            \* parse_script_hex: scan position
    runestone_data, \* parse_script_hex: concatenated push data
    dec_data,       \* VarIntDecoder.data
    dec_pos,        \* VarIntDecoder.pos
    fields,         \* parse_runestone_data: the HashMap, a set of <<tag, value>>
    ret,            \* what the last decode_varint call returned
    result,         \* what parse_script_hex / parse_runestone_data / build returned
    tree,           \* merkle_tree: the ScriptTree that ScriptTree::build returned
    proof           \* merkle_tree: what generate_proof returned

vars == <<input, pc, builder, bytes, pos, runestone_data, dec_data, dec_pos,
          fields, ret, result, tree, proof>>

----------------------------------------------------------------------------
(* Bytes and 128-bit integers *)

Byte == 0..255

\* n times the byte b
Fill(b, n) == [i \in 1..n |-> b]

Zeros(n) == Fill(0, n)

\* the u128 whose little-endian bytes start with le and are 0 above it
\* (uN::from_le_bytes(le) as u128)
FromLe(le) == le \o Zeros(16 - Len(le))

\* a number below 2^31 as a u128
U128(n) == FromLe(<<n % 256, (n \div 256) % 256, (n \div 65536) % 256, n \div 16777216>>)

\* all bytes of v above the n lowest are 0, that is v < 2^(8n)
FitsIn(v, n) == \A i \in (n + 1)..16 : v[i] = 0

\* a < b on u128
U128Less(a, b) ==
    \E i \in 1..16 : a[i] < b[i] /\ \A j \in (i + 1)..16 : a[j] = b[j]

IsZero(v) == \A i \in 1..16 : v[i] = 0

----------------------------------------------------------------------------
(* VarInt encoder: runes_builder.rs *)

\* encode_varint with the first arm written `0..=253`
encode_varint_literal_253(value) ==
    IF FitsIn(value, 1) /\ value[1] <= 253 THEN <<value[1]>>
    ELSE IF FitsIn(value, 2) THEN <<253>> \o SubSeq(value, 1, 2)
    ELSE IF FitsIn(value, 4) THEN <<254>> \o SubSeq(value, 1, 4)
    ELSE <<255>> \o value

\* the four arms of encode_varint's match, on the value's bytes
encode_varint(value) ==
    IF FitsIn(value, 1) /\ value[1] <= 252 THEN <<value[1]>>
    ELSE IF FitsIn(value, 2) THEN <<253>> \o SubSeq(value, 1, 2)
    ELSE IF FitsIn(value, 4) THEN <<254>> \o SubSeq(value, 1, 4)
    ELSE <<255>> \o value

----------------------------------------------------------------------------
(* VarInt decoder: rune_decode.rs.  Positions are 0-based as in the code;   *)
(* data[p] of the code is d[p + 1] here.                                    *)

DecodeOk(v, p) == [ok |-> TRUE, value |-> v, pos |-> p]
DecodeErr(p) == [ok |-> FALSE, value |-> Zeros(16), pos |-> p]

\* the length test of a prefixed arm: `self.pos + (n - 1) >= self.data.len()`
VarIntShort(d, p, n) == p + (n - 1) >= Len(d)

\* PrefixedArm without its length test: the bytes that are missing read as 0
PrefixedArmUnchecked(d, p, n) ==
    LET last == IF p + n > Len(d) THEN Len(d) ELSE p + n
    IN  DecodeOk(FromLe(SubSeq(d, p + 1, last)), last)

\* one of the arms 0xFD / 0xFE / 0xFF, entered with pos already behind the prefix
PrefixedArm(d, p, n) ==
    IF VarIntShort(d, p, n) THEN DecodeErr(p)
    ELSE DecodeOk(FromLe(SubSeq(d, p + 1, p + n)), p + n)

\* decode_varint without `self.pos += 1` behind the read of the first byte
decode_varint_no_advance(d, p) ==
    IF p >= Len(d) THEN DecodeErr(p)
    ELSE LET byte == d[p + 1]
         IN  IF byte <= 252 THEN DecodeOk(FromLe(<<byte>>), p)
             ELSE IF byte = 253 THEN PrefixedArm(d, p, 2)
             ELSE IF byte = 254 THEN PrefixedArm(d, p, 4)
             ELSE PrefixedArm(d, p, 8)

\* decode_varint on a decoder with data d and pos p: what it returns, and
\* the pos it leaves
decode_varint(d, p) ==
    IF p >= Len(d) THEN DecodeErr(p)
    ELSE LET byte == d[p + 1]
             p1 == p + 1
         IN  IF byte <= 252 THEN DecodeOk(FromLe(<<byte>>), p1)
             ELSE IF byte = 253 THEN PrefixedArm(d, p1, 2)
             ELSE IF byte = 254 THEN PrefixedArm(d, p1, 4)
             ELSE PrefixedArm(d, p1, 8)

is_eof(d, p) == p >= Len(d)

----------------------------------------------------------------------------
(* Hex strings: sequences of hex digits 0..15; 16 is a character that is    *)
(* no hex digit                                                             *)

\* hex::decode
HexDecode(h) ==
    IF Len(h) % 2 # 0 \/ \E i \in 1..Len(h) : h[i] \notin 0..15
    THEN [ok |-> FALSE, bytes |-> <<>>]
    ELSE [ok |-> TRUE, bytes |-> [i \in 1..(Len(h) \div 2) |-> 16 * h[2 * i - 1] + h[2 * i]]]

\* script.to_hex_string()
HexEncode(b) ==
    [i \in 1..(2 * Len(b)) |-> IF i % 2 = 1 THEN b[(i + 1) \div 2] \div 16 ELSE b[i \div 2] % 16]

----------------------------------------------------------------------------
(* Script push scanner: RunesParser::parse_script_hex, rune_decode.rs       *)

OP_RETURN == 106        \* 0x6a
OP_PUSHNUM_13 == 93     \* 0x5d
OP_PUSHDATA1 == 76      \* 0x4c
OP_PUSHDATA2 == 77      \* 0x4d
OP_PUSHDATA4 == 78      \* 0x4e

\* IsRunesScript without the test of byte 1
IsRunesScriptNoSelector(b) ==
    /\ ~(Len(b) = 0 \/ b[1] # OP_RETURN)
    /\ ~(Len(b) < 2)

\* lines 115-130: the script passes the OP_RETURN OP_PUSHNUM_13 test
IsRunesScript(b) ==
    /\ ~(Len(b) = 0 \/ b[1] # OP_RETURN)
    /\ ~(Len(b) < 2)
    /\ ~(b[2] # OP_PUSHNUM_13)

\* PushLength reading the length field big-endian
PushLengthBigEndian(le) ==
    LET n == Len(le)
        at(i) == IF i <= n THEN le[n + 1 - i] ELSE 0
    IN  IF at(4) >= 128 THEN 2147483647
        ELSE at(1) + 256 * at(2) + 65536 * at(3) + 16777216 * at(4)

\* uN::from_le_bytes(le) as usize for a length field of 1, 2 or 4 bytes.
\* Lengths of 2^31 and more are all far beyond any script of the model and
\* are given as 2^31 - 1.
PushLength(le) ==
    LET at(i) == IF i <= Len(le) THEN le[i] ELSE 0
    IN  IF at(4) >= 128 THEN 2147483647
        ELSE at(1) + 256 * at(2) + 65536 * at(3) + 16777216 * at(4)

\* `if pos + len > bytes.len()`
PushPastEnd(b, p, len) == len > Len(b) - p

\* the length field of a PUSHDATAn is missing: `pos + (n - 1) >= bytes.len()`
LengthFieldShort(b, p, n) == p + (n - 1) >= Len(b)

\* what an iteration of the scan loop comes to, with the pos it leaves
ScanErr(p) == [kind |-> "err", pos |-> p, data |-> <<>>]
ScanBreak(p, data) == [kind |-> "break", pos |-> p, data |-> data]

\* TakePush without its length test: it takes the bytes that are there
TakePushClamped(b, p, data, len) ==
    LET last == IF PushPastEnd(b, p, len) THEN Len(b) ELSE p + len
    IN  [kind |-> "push", pos |-> last, data |-> data \o SubSeq(b, p + 1, last)]

\* the common tail of the four push arms: the length test, extend_from_slice
\* and pos += len
TakePush(b, p, data, len) ==
    IF PushPastEnd(b, p, len) THEN ScanErr(p)
    ELSE [kind |-> "push", pos |-> p + len, data |-> data \o SubSeq(b, p + 1, p + len)]

\* an arm OP_PUSHDATA1/2/4 with a length field of n bytes, entered with pos
\* behind the opcode
PushDataArm(b, p, data, n) ==
    IF LengthFieldShort(b, p, n) THEN ScanErr(p)
    ELSE TakePush(b, p + n, data, PushLength(SubSeq(b, p + 1, p + n)))

\* an iteration that leaves pos where it was
ScanStuck(b, p, data) == [kind |-> "push", pos |-> p, data |-> data]

\* one iteration of the `while pos < bytes.len()` loop, lines 142-216
ScanOp(b, p, data) ==
    LET op == b[p + 1]
        p1 == p + 1
    IN  IF op = OP_PUSHDATA1 THEN PushDataArm(b, p1, data, 1)
        ELSE IF op = OP_PUSHDATA2 THEN PushDataArm(b, p1, data, 2)
        ELSE IF op = OP_PUSHDATA4 THEN PushDataArm(b, p1, data, 4)
        ELSE IF op \in 1..75 THEN TakePush(b, p1, data, op)
        ELSE ScanBreak(p1, data)

----------------------------------------------------------------------------
(* Results *)

NoResult == [kind |-> "pending"]
OkNone == [kind |-> "OkNone"]
OkSome(fs) == [kind |-> "OkSome", fields |-> fs]
\* Err(String): the message tells the hex decoder, the push scan and the
\* VarInt decoder apart
Err(from) == [kind |-> "Err", from |-> from]
NoRet == [ok |-> FALSE, value |-> <<>>, pos |-> 0]

\* HashMap::insert: the entry of the key is replaced
Insert(fs, tag, value) == {f \in fs : f[1] # tag} \cup {<<tag, value>>}

BODY == Zeros(16)

----------------------------------------------------------------------------
(* The parts of the state a call does not use *)

IdleBuilder == builder = <<>>
IdleScript == bytes = <<>> /\ pos = 0 /\ runestone_data = <<>>
IdleDecoder == dec_data = <<>> /\ dec_pos = 0 /\ fields = {} /\ ret = NoRet

NoTree == [kind |-> "none"]
NoProof == [kind |-> "pending"]
IdleMerkle == tree = NoTree /\ proof = NoProof

----------------------------------------------------------------------------
(* A VarIntDecoder used on its own: new, then decode_varint calls *)

LowBytes == {0, 1, 252, 253, 255}
HighBytes == {1, 255}
LeadBytes == {0, 252, 253, 254, 255}
FillBytes == {0, 1, 255}
MaxFill == 9

\* values over the whole u128 range: every byte width, both ends of each
\* arm of the encoder
SampleValues ==
    {FromLe(<<lo>>) : lo \in LowBytes}
    \cup {FromLe(<<lo>> \o Zeros(k) \o <<hi>>) : lo \in LowBytes, k \in 0..14, hi \in HighBytes}
    \cup {FromLe(Fill(255, n)) : n \in 1..16}

\* buffers: up to two chosen leading bytes, then a run of one byte; and runs
\* of 19 and 20 bytes that all have bit 0x80 set, with a last byte behind
\* them or without
SampleBuffers ==
    LET Leads == {<<>>} \cup {<<a>> : a \in LeadBytes}
                 \cup {<<a, b>> : a \in LeadBytes, b \in LeadBytes}
    IN  {l \o Fill(f, n) : l \in Leads, f \in FillBytes, n \in 0..MaxFill}
        \cup {Fill(b, n) \o t : b \in {128, 255}, n \in {19, 20}, t \in {<<>>, <<1>>}}
        \cup {<<2, 7, 4>>, <<252, 0, 100, 252>>}

VarIntInputs ==
    {[kind |-> "value", v |-> v] : v \in SampleValues}
    \cup {[kind |-> "buffer", data |-> d] : d \in SampleBuffers}

InitVarInt ==
    /\ input \in VarIntInputs
    /\ pc = "new"
    /\ IdleBuilder /\ IdleScript /\ IdleDecoder
    /\ result = NoResult
    /\ IdleMerkle

\* VarIntDecoder::new(encode_varint(v))
NewFromEncoded ==
    /\ pc = "new" /\ input.kind = "value"
    /\ dec_data' = encode_varint(input.v)
    /\ dec_pos' = 0
    /\ pc' = "fresh"
    /\ UNCHANGED <<tree, proof, input, builder, bytes, pos, runestone_data, fields, ret, result>>

\* VarIntDecoder::new(data)
NewFromBuffer ==
    /\ pc = "new" /\ input.kind = "buffer"
    /\ dec_data' = input.data
    /\ dec_pos' = 0
    /\ pc' = "fresh"
    /\ UNCHANGED <<tree, proof, input, builder, bytes, pos, runestone_data, fields, ret, result>>

\* decoder.decode_varint()
DecodeCall ==
    /\ pc \in {"fresh", "used"}
    /\ LET r == decode_varint(dec_data, dec_pos)
       IN  /\ ret' = [ok |-> r.ok, value |-> r.value, pos |-> dec_pos]
           /\ dec_pos' = r.pos
    /\ pc' = "used"
    /\ UNCHANGED <<tree, proof, input, builder, bytes, pos, runestone_data, dec_data, fields, result>>

NextVarInt == NewFromEncoded \/ NewFromBuffer \/ DecodeCall

SpecVarInt == InitVarInt /\ [][NextVarInt]_vars

\* The call the state shows is the first one made on its decoder.
FirstCall == pc = "used" /\ ret.pos = 0

\* C1 (as claimed): VarInt round trip.  For every u128 v, the first
\* decode_varint call on a fresh decoder holding encode_varint(v) returns
\* Ok(v) and leaves the position at the end of the encoding (is_eof).
C1_RoundTrip ==
    (FirstCall /\ input.kind = "value") =>
        /\ ret.ok
        /\ ret.value = input.v
        /\ dec_pos = Len(encode_varint(input.v))
        /\ is_eof(dec_data, dec_pos)

\* the number of bytes the encoding that starts with byte b takes
EncodingLength(b) == IF b <= 252 THEN 1 ELSE IF b = 253 THEN 3 ELSE IF b = 254 THEN 5 ELSE 9

\* the buffer d holds a whole VarInt at position p
WholeAt(d, p) == p < Len(d) /\ p + EncodingLength(d[p + 1]) <= Len(d)

\* C6: VarInt truncation.  A decode_varint call made where the buffer ends
\* before the value is complete (at an exhausted buffer, or with fewer bytes
\* behind a prefix byte than the prefix requires) returns an error, a buffer
\* that is only 0xFD gives an error, and Ok is returned only when all bytes
\* of the value were there.
C6_Truncation ==
    pc = "used" =>
        /\ (ret.pos >= Len(dec_data) => ~ret.ok)
        /\ (~WholeAt(dec_data, ret.pos) => ~ret.ok)
        /\ (dec_data = <<253>> => ~ret.ok)
        /\ (ret.ok => WholeAt(dec_data, ret.pos) /\ dec_pos <= Len(dec_data))

\* a call on the buffer that is only 0xFD has returned its error
C6_Witness == pc = "used" /\ dec_data = <<253>> /\ ret.pos = 0 /\ ~ret.ok

\* the decoder holds the encoding of the input value
HoldsEncoding == pc \in {"fresh", "used"} /\ input.kind = "value"

\* C19: encoding format.  encode_varint(v) is the single byte v for
\* v <= 252 and 0xFD followed by v in 2 little-endian bytes for
\* 253 <= v <= 65535 (0 -> 00, 1 -> 01, 252 -> fc, 253 -> fd fd 00), and the
\* first byte of an encoding determines its total length: two values whose
\* encodings start with the same byte have encodings of the same length.
C19_EncodingFormat ==
    HoldsEncoding =>
        LET v == input.v
            enc == dec_data
        IN  /\ Len(enc) >= 1
            /\ (FitsIn(v, 1) /\ v[1] <= 252) => enc = <<v[1]>>
            /\ (FitsIn(v, 2) /\ ~(FitsIn(v, 1) /\ v[1] <= 252)) => enc = <<253, v[1], v[2]>>
            /\ v = U128(0) => enc = <<0>>
            /\ v = U128(1) => enc = <<1>>
            /\ v = U128(252) => enc = <<252>>
            /\ v = U128(253) => enc = <<253, 253, 0>>
            /\ \A w \in SampleValues :
                   encode_varint(w)[1] = enc[1] => Len(encode_varint(w)) = Len(enc)

\* the decoder holds fd fd 00, the encoding of 253
C19_Witness ==
    /\ HoldsEncoding
    /\ input.v = U128(253)
    /\ dec_data = <<253, 253, 0>>

\* C20 (as claimed): canonical minimal encoding.  encode_varint(v) is a byte
\* string that decode_varint accepts and decodes to v, and no strictly
\* shorter byte string decodes to v: a call that returns Ok(v) has consumed
\* at least as many bytes as encode_varint(v) has.
C20_MinimalEncoding ==
    FirstCall =>
        /\ input.kind = "value" => ret.ok /\ ret.value = input.v
        /\ ret.ok => dec_pos >= Len(encode_varint(ret.value))

\* the same of the values below 2^32
MinimalBelow32Bits ==
    (FirstCall /\ ret.ok /\ FitsIn(ret.value, 4)
        /\ (input.kind = "value" => FitsIn(input.v, 4))) => C20_MinimalEncoding

\* all bytes of the buffer are at most 252
AllLiteral(d) == \A i \in 1..Len(d) : d[i] <= 252

\* C22: sequential decoding of literal bytes.  On a buffer whose bytes are
\* all <= 252 a decode_varint call made in front of a byte returns that byte
\* and advances the position by exactly 1, so that successive calls return
\* the bytes one by one in order, and is_eof() is true exactly when the last
\* byte has been returned; [0x02, 0x07, 0x04] decodes to 2, 7, 4.
C22_LiteralBytes ==
    (pc \in {"fresh", "used"} /\ input.kind = "buffer" /\ AllLiteral(dec_data)) =>
        /\ dec_pos <= Len(dec_data)
        /\ is_eof(dec_data, dec_pos) <=> dec_pos = Len(dec_data)
        /\ pc = "fresh" => dec_pos = 0
        /\ (pc = "used" /\ ret.pos < Len(dec_data)) =>
               /\ ret.ok
               /\ ret.value = U128(dec_data[ret.pos + 1])
               /\ dec_pos = ret.pos + 1
        /\ (pc = "used" /\ dec_data = <<2, 7, 4>> /\ ret.ok) =>
               ret.value = U128(CASE ret.pos = 0 -> 2 [] ret.pos = 1 -> 7 [] ret.pos = 2 -> 4)

\* the third call on [0x02, 0x07, 0x04] has returned 4 and the decoder is at
\* its end
C22_Witness ==
    /\ pc = "used"
    /\ dec_data = <<2, 7, 4>>
    /\ ret.ok /\ ret.pos = 2 /\ ret.value = U128(4)
    /\ is_eof(dec_data, dec_pos)

\* at position p the buffer holds 18 bytes with bit 0x80 set and a 19th byte
\* behind them: a value with a continuation chain of more than 18 bytes,
\* whose 19th byte is shifted by 126 bits and whose 20th by 133
OverlongAt(d, p) ==
    /\ p + 19 <= Len(d)
    /\ \A i \in 1..18 : d[p + i] >= 128

\* C17 (as claimed): VarInt overflow.  A decode_varint call on a value that
\* takes more than 18 input bytes, or whose running bit-shift exceeds 127,
\* fails; the decoder never returns Ok for such an encoding.
C17_Overflow ==
    (pc = "used" /\ OverlongAt(dec_data, ret.pos)) => ~ret.ok

----------------------------------------------------------------------------
(* RunesParser::parse_runestone_data: the tag/value loop, one action per    *)
(* way an iteration of `while !decoder.is_eof()` can go                     *)

\* lines 227-228: the decoder and the empty map
ParseStart ==
    /\ pc = "parse"
    /\ dec_data' = runestone_data
    /\ dec_pos' = 0
    /\ fields' = {}
    /\ pc' = "loop"
    /\ UNCHANGED <<tree, proof, input, builder, bytes, pos, runestone_data, ret, result>>

\* ParseEof taking a payload without BODY tag for an error
ParseEofStrict ==
    /\ pc = "loop"
    /\ is_eof(dec_data, dec_pos)
    /\ result' = Err("varint")
    /\ pc' = "done"
    /\ UNCHANGED <<tree, proof, input, builder, bytes, pos, runestone_data, dec_data, dec_pos, fields, ret>>

\* the loop condition fails: lines 261-262
ParseEof ==
    /\ pc = "loop"
    /\ is_eof(dec_data, dec_pos)
    /\ result' = OkSome(fields)
    /\ pc' = "done"
    /\ UNCHANGED <<tree, proof, input, builder, bytes, pos, runestone_data, dec_data, dec_pos, fields, ret>>

\* line 235: `decoder.decode_varint()?` of the tag returns Err
ParseTagErr ==
    /\ pc = "loop"
    /\ ~is_eof(dec_data, dec_pos)
    /\ LET tag == decode_varint(dec_data, dec_pos)
       IN  /\ ~tag.ok
           /\ dec_pos' = tag.pos
    /\ result' = Err("varint")
    /\ pc' = "done"
    /\ UNCHANGED <<tree, proof, input, builder, bytes, pos, runestone_data, dec_data, fields, ret>>

\* ParseBody with `continue` in the place of `break`
ParseBodyNoBreak ==
    /\ pc = "loop"
    /\ ~is_eof(dec_data, dec_pos)
    /\ LET tag == decode_varint(dec_data, dec_pos)
       IN  /\ tag.ok
           /\ tag.value = BODY
           /\ dec_pos' = tag.pos
    /\ UNCHANGED <<tree, proof, input, pc, builder, bytes, pos, runestone_data, dec_data, fields, ret, result>>

\* lines 242-245: the tag is BODY, break, then lines 261-262
ParseBody ==
    /\ pc = "loop"
    /\ ~is_eof(dec_data, dec_pos)
    /\ LET tag == decode_varint(dec_data, dec_pos)
       IN  /\ tag.ok
           /\ tag.value = BODY
           /\ dec_pos' = tag.pos
    /\ result' = OkSome(fields)
    /\ pc' = "done"
    /\ UNCHANGED <<tree, proof, input, builder, bytes, pos, runestone_data, dec_data, fields, ret>>

\* ParseValueErr returning what was collected instead of the error
ParseValueErrLenient ==
    /\ pc = "loop"
    /\ ~is_eof(dec_data, dec_pos)
    /\ LET tag == decode_varint(dec_data, dec_pos)
           value == decode_varint(dec_data, tag.pos)
       IN  /\ tag.ok
           /\ tag.value # BODY
           /\ ~value.ok
           /\ dec_pos' = value.pos
    /\ result' = OkSome(fields)
    /\ pc' = "done"
    /\ UNCHANGED <<tree, proof, input, builder, bytes, pos, runestone_data, dec_data, fields, ret>>

\* line 247: `decoder.decode_varint()?` of the value returns Err
ParseValueErr ==
    /\ pc = "loop"
    /\ ~is_eof(dec_data, dec_pos)
    /\ LET tag == decode_varint(dec_data, dec_pos)
           value == decode_varint(dec_data, tag.pos)
       IN  /\ tag.ok
           /\ tag.value # BODY
           /\ ~value.ok
           /\ dec_pos' = value.pos
    /\ result' = Err("varint")
    /\ pc' = "done"
    /\ UNCHANGED <<tree, proof, input, builder, bytes, pos, runestone_data, dec_data, fields, ret>>

\* lines 235-250: a tag and its value, fields.insert(tag, value)
ParsePair ==
    /\ pc = "loop"
    /\ ~is_eof(dec_data, dec_pos)
    /\ LET tag == decode_varint(dec_data, dec_pos)
           value == decode_varint(dec_data, tag.pos)
       IN  /\ tag.ok
           /\ tag.value # BODY
           /\ value.ok
           /\ dec_pos' = value.pos
           /\ fields' = Insert(fields, tag.value, value.value)
    /\ UNCHANGED <<tree, proof, input, pc, builder, bytes, pos, runestone_data, dec_data, ret, result>>

ParseLoop == ParseEof \/ ParseTagErr \/ ParseBody \/ ParseValueErr \/ ParsePair

----------------------------------------------------------------------------
(* parse_runestone_data called on a payload.  The payload is given as the   *)
(* VarInt encodings it is made of, plus what is left over behind them: the  *)
(* start of an encoding that the payload ends in, or nothing.               *)

MaxInts == 4

\* encodings of 0, 2, 4, of 0 in three bytes, of 2^24 + 1 and of a 64-bit value
SampleChunks ==
    {<<0>>, <<2>>, <<4>>, <<253, 0, 0>>, <<254, 1, 0, 0, 1>>,
     <<255, 1, 2, 3, 4, 5, 6, 7, 8>>}

SampleCut == {<<>>, <<253, 9>>, <<254, 0, 0, 0>>, <<255>>}

RECURSIVE SeqsUpTo(_, _)
SeqsUpTo(S, n) ==
    IF n = 0 THEN {<<>>}
    ELSE LET shorter == SeqsUpTo(S, n - 1)
         IN  shorter \cup {Append(q, x) : q \in {r \in shorter : Len(r) = n - 1}, x \in S}

RECURSIVE Flatten(_)
Flatten(ss) == IF ss = <<>> THEN <<>> ELSE Head(ss) \o Flatten(Tail(ss))

PayloadInputs ==
    {[kind |-> "payload", chunks |-> c, cut |-> t] :
        c \in SeqsUpTo(SampleChunks, MaxInts), t \in SampleCut}

InitParse ==
    /\ input \in PayloadInputs
    /\ pc = "parse"
    /\ builder = <<>>
    /\ bytes = <<>> /\ pos = 0
    /\ runestone_data = Flatten(input.chunks) \o input.cut
    /\ IdleDecoder
    /\ result = NoResult
    /\ IdleMerkle

NextParse == ParseStart \/ ParseLoop

SpecParse == InitParse /\ [][NextParse]_vars

----------------------------------------------------------------------------
(* The payload as the claims describe it: a stream of integers, read as     *)
(* tag, value, tag, value, ... up to the first tag that is 0                *)

\* the integer an encoding stands for: its only byte, or the little-endian
\* bytes behind its prefix byte
ChunkValue(c) == IF Len(c) = 1 THEN FromLe(c) ELSE FromLe(Tail(c))

Ints(inp) == [i \in 1..Len(inp.chunks) |-> ChunkValue(inp.chunks[i])]

\* the index of the first integer in tag position that is 0; 0 when there is none
FirstBody(ints) ==
    LET bodies == {i \in 1..Len(ints) :
                     /\ i % 2 = 1
                     /\ IsZero(ints[i])}
    IN  IF bodies = {} THEN 0 ELSE CHOOSE i \in bodies : \A j \in bodies : i <= j

\* the number of whole tag/value pairs in front of the BODY tag or, without
\* one, in the stream
PairCount(ints) ==
    IF FirstBody(ints) > 0 THEN (FirstBody(ints) - 1) \div 2 ELSE Len(ints) \div 2

PairsOf(ints) == {<<ints[2 * j - 1], ints[2 * j]>> : j \in 1..PairCount(ints)}

TagsOf(ints) == {ints[2 * j - 1] : j \in 1..PairCount(ints)}

\* the stream ends right behind a tag that is not 0 and has no value
Dangling(inp) ==
    /\ inp.cut = <<>>
    /\ Len(inp.chunks) % 2 = 1
    /\ FirstBody(Ints(inp)) = 0

\* C7: dangling tag.  A payload whose integer stream ends right behind a
\* non-zero tag makes parse_runestone_data return Err, however many whole
\* pairs came before.
C7_DanglingTag ==
    (pc = "done" /\ Dangling(input)) => result = Err("varint")

\* parse_runestone_data has returned Err for a stream of one pair and a
\* tag without value
C7_Witness ==
    /\ pc = "done"
    /\ Dangling(input)
    /\ Len(input.chunks) = 3
    /\ result = Err("varint")

\* C8: BODY is the sole early terminator.  With a first 0 in tag position at
\* index k, the call returns the map of the pairs in front of k: its keys
\* are their tags, each entry is one of these pairs, key 0 is not in it, and
\* the decoder has read nothing behind the 0 tag.  Without a 0 tag a call
\* that returns Ok has read the whole input.
C8_BodyTerminates ==
    pc = "done" =>
        LET ints == Ints(input)
            k == FirstBody(ints)
        IN  /\ k > 0 =>
                /\ result.kind = "OkSome"
                /\ result.fields \subseteq PairsOf(ints)
                /\ {f[1] : f \in result.fields} = TagsOf(ints)
                /\ dec_pos = Len(Flatten(SubSeq(input.chunks, 1, k)))
            /\ result.kind = "OkSome" =>
                /\ \A f \in result.fields : ~IsZero(f[1])
                /\ Cardinality(TagsOf(ints)) = PairCount(ints) => result.fields = PairsOf(ints)
                /\ k = 0 => is_eof(dec_data, dec_pos) /\ input.cut = <<>>

\* a call has returned at a BODY tag with pairs in front of it and another
\* pair behind it
C8_Witness ==
    /\ pc = "done"
    /\ FirstBody(Ints(input)) = 3
    /\ Len(input.chunks) >= 4
    /\ result.kind = "OkSome"
    /\ result.fields # {}

\* the value of the first pair with tag t
FirstValue(ints, t) ==
    LET j == CHOOSE j \in 1..PairCount(ints) :
                 /\ ints[2 * j - 1] = t
                 /\ \A i \in 1..(j - 1) : ints[2 * i - 1] # t
    IN  ints[2 * j]

\* C9 (as claimed): duplicate tags.  The value the returned Runestone holds
\* for a tag is the value of the tag's first occurrence in the payload.
C9_FirstOccurrenceWins ==
    (pc = "done" /\ result.kind = "OkSome") =>
        \A f \in result.fields : f[2] = FirstValue(Ints(input), f[1])

\* C18 (as claimed): a truncated VarInt anywhere in the payload is fatal.  A
\* payload whose bytes end in the middle of a VarInt makes
\* parse_runestone_data return Err wherever the incomplete VarInt lies, also
\* behind a BODY tag.
C18_TruncatedAnywhere ==
    (pc = "done" /\ input.cut # <<>>) => result.kind = "Err"

\* the same of the payloads without a BODY tag in front of the incomplete
\* VarInt
TruncatedBeforeBody ==
    FirstBody(Ints(input)) = 0 => C18_TruncatedAnywhere

----------------------------------------------------------------------------
(* RunesParser::parse_script_hex: the entry, then one action per way an     *)
(* iteration of `while pos < bytes.len()` can go                            *)

\* line 109: hex::decode fails
HexError ==
    /\ pc = "script"
    /\ ~HexDecode(input.hex).ok
    /\ result' = Err("hex")
    /\ pc' = "done"
    /\ UNCHANGED <<tree, proof, input, builder, bytes, pos, runestone_data, dec_data, dec_pos, fields, ret>>

\* lines 109-130: not an OP_RETURN OP_PUSHNUM_13 script
NotRunes ==
    /\ pc = "script"
    /\ HexDecode(input.hex).ok
    /\ bytes' = HexDecode(input.hex).bytes
    /\ ~IsRunesScript(bytes')
    /\ result' = OkNone
    /\ pc' = "done"
    /\ UNCHANGED <<tree, proof, input, builder, pos, runestone_data, dec_data, dec_pos, fields, ret>>

\* lines 109-136: the prefix is there, the scan starts behind it
ScanStart ==
    /\ pc = "script"
    /\ HexDecode(input.hex).ok
    /\ bytes' = HexDecode(input.hex).bytes
    /\ IsRunesScript(bytes')
    /\ pos' = 2
    /\ runestone_data' = <<>>
    /\ pc' = "scan"
    /\ UNCHANGED <<tree, proof, input, builder, dec_data, dec_pos, fields, ret, result>>

\* an iteration that takes a push whose opcode is in ops
ScanTakes(ops) ==
    /\ pc = "scan"
    /\ pos < Len(bytes)
    /\ bytes[pos + 1] \in ops
    /\ LET r == ScanOp(bytes, pos, runestone_data)
       IN  /\ r.kind = "push"
           /\ pos' = r.pos
           /\ runestone_data' = r.data
    /\ UNCHANGED <<tree, proof, input, pc, builder, bytes, dec_data, dec_pos, fields, ret, result>>

\* lines 197-209
ScanDirectPush == ScanTakes(1..75)

\* lines 150-162
ScanPushData1 == ScanTakes({OP_PUSHDATA1})

\* lines 164-176
ScanPushData2 == ScanTakes({OP_PUSHDATA2})

\* lines 178-195
ScanPushData4 == ScanTakes({OP_PUSHDATA4})

\* one of the `return Err(..)` of the loop
ScanTruncated ==
    /\ pc = "scan"
    /\ pos < Len(bytes)
    /\ LET r == ScanOp(bytes, pos, runestone_data)
       IN  /\ r.kind = "err"
           /\ pos' = r.pos
    /\ result' = Err("push")
    /\ pc' = "done"
    /\ UNCHANGED <<tree, proof, input, builder, bytes, runestone_data, dec_data, dec_pos, fields, ret>>

\* lines 211-214 and 222: another opcode, break, parse_runestone_data is called
ScanOther ==
    /\ pc = "scan"
    /\ pos < Len(bytes)
    /\ LET r == ScanOp(bytes, pos, runestone_data)
       IN  /\ r.kind = "break"
           /\ pos' = r.pos
    /\ pc' = "parse"
    /\ UNCHANGED <<tree, proof, input, builder, bytes, runestone_data, dec_data, dec_pos, fields, ret, result>>

\* lines 142 and 222: the script is used up, parse_runestone_data is called
ScanEnd ==
    /\ pc = "scan"
    /\ ~(pos < Len(bytes))
    /\ pc' = "parse"
    /\ UNCHANGED <<tree, proof, input, builder, bytes, pos, runestone_data, dec_data, dec_pos, fields, ret, result>>

ScanLoop ==
    \/ ScanDirectPush \/ ScanPushData1 \/ ScanPushData2 \/ ScanPushData4
    \/ ScanTruncated \/ ScanOther \/ ScanEnd

----------------------------------------------------------------------------
(* parse_script_hex called on a script.  The script is given as what it is  *)
(* made of: the bytes in front, complete push operations, and what is left  *)
(* behind them.                                                             *)

MaxPushes == 2

SampleHeads ==
    {<<>>, <<106>>, <<93>>, <<106, 106>>, <<93, 106>>, <<0, 93>>, <<106, 0>>, <<106, 93>>}

\* a push operation: the opcode family and the bytes pushed
SampleOps ==
    {[op |-> "direct", data |-> <<2, 7>>],
     [op |-> "direct", data |-> <<0>>],
     [op |-> "direct", data |-> <<76>>],
     [op |-> "pushdata1", data |-> <<>>],
     [op |-> "pushdata1", data |-> <<253>>],
     [op |-> "pushdata2", data |-> <<2, 7>>],
     [op |-> "pushdata2", data |-> <<4>>],
     [op |-> "pushdata4", data |-> <<2, 0>>]}

\* a PUSHDATA2 whose length takes both bytes of its length field
LongPush == [op |-> "pushdata2", data |-> Zeros(256)]

SampleOpLists ==
    SeqsUpTo(SampleOps, MaxPushes)
    \cup {<<LongPush>>,
          <<[op |-> "direct", data |-> <<2, 7>>], LongPush>>,
          <<LongPush, [op |-> "pushdata1", data |-> <<253>>]>>}

\* nothing; other opcodes with bytes behind them; pushes that are cut short
SampleTails ==
    {<<>>, <<0, 1, 9>>, <<106>>, <<79, 2, 7, 7>>,
     <<2, 7>>, <<75>>, <<76>>, <<76, 3, 1, 1>>, <<77, 1>>, <<77, 0, 1, 5>>,
     <<78, 1, 0, 0>>, <<78, 1, 0, 0, 0>>}

\* the bytes of a push operation
Serialized(o) ==
    LET n == Len(o.data)
    IN  CASE o.op = "direct" -> <<n>> \o o.data
          [] o.op = "pushdata1" -> <<76, n>> \o o.data
          [] o.op = "pushdata2" -> <<77, n % 256, n \div 256>> \o o.data
          [] o.op = "pushdata4" -> <<78, n % 256, (n \div 256) % 256, 0, 0>> \o o.data

ScriptBody(inp) ==
    Flatten([i \in 1..Len(inp.ops) |-> Serialized(inp.ops[i])]) \o inp.tail

ScriptBytes(inp) == inp.head \o ScriptBody(inp)

\* the bytes the operations push, in their order
Pushed(inp) == Flatten([i \in 1..Len(inp.ops) |-> inp.ops[i].data])

ScriptInputs ==
    LET Parts == {[head |-> h, ops |-> o, tail |-> t] :
                    h \in SampleHeads, o \in SampleOpLists, t \in SampleTails}
        Of(k, p, hex) == [kind |-> k, head |-> p.head, ops |-> p.ops, tail |-> p.tail,
                          hex |-> hex]
    IN  {Of("script", p, HexEncode(ScriptBytes(p))) : p \in Parts}
        \cup {Of("odd hex", p, Append(HexEncode(ScriptBytes(p)), 6)) :
                 p \in {q \in Parts : q.ops = <<>>}}
        \cup {Of("no hex", p, <<6, 16>> \o HexEncode(ScriptBytes(p))) :
                 p \in {q \in Parts : q.ops = <<>>}}

InitScript ==
    /\ input \in ScriptInputs
    /\ pc = "script"
    /\ IdleBuilder /\ IdleScript /\ IdleDecoder
    /\ result = NoResult
    /\ IdleMerkle

NextScript == HexError \/ NotRunes \/ ScanStart \/ ScanLoop \/ ParseStart \/ ParseLoop

SpecScript == InitScript /\ [][NextScript]_vars

\* the input is the hex of a byte string, ScriptBytes(inp)
IsHexOfBytes(inp) == inp.kind = "script"

\* the byte string does not start with 0x6a 0x5d
NotProtocol(b) == Len(b) = 0 \/ b[1] # 106 \/ Len(b) = 1 \/ b[2] # 93

\* C3: a script that is not a protocol script is a negative result.  For a
\* byte string that is empty, or does not start with 0x6a, or has length 1,
\* or whose byte 1 is not 0x5d, parse_script_hex returns Ok(None) without
\* scanning, whatever the other bytes are.
C3_NotProtocolIsNone ==
    (IsHexOfBytes(input) /\ NotProtocol(ScriptBytes(input))) =>
        \/ pc = "script"
        \/ pc = "done" /\ result = OkNone

\* Ok(None) has been returned for a script 0x6a 0x00 followed by two pushes
C3_Witness ==
    /\ pc = "done"
    /\ result = OkNone
    /\ IsHexOfBytes(input)
    /\ input.head = <<106, 0>>
    /\ Len(input.ops) = 2

\* an opcode that starts a push operation
IsPushOpcode(b) == b \in 1..75 \/ b \in {76, 77, 78}

\* what is left behind the pushes is nothing, or starts with another opcode
TailStops(t) == t = <<>> \/ ~IsPushOpcode(t[1])

\* the number of bytes of the length field behind a push opcode
LengthFieldSize(b) == IF b = 76 THEN 1 ELSE IF b = 77 THEN 2 ELSE IF b = 78 THEN 4 ELSE 0

\* the push operation that t starts with lacks its length field, or declares
\* more bytes than t has behind the length field (t is shorter than 65536)
TailTruncated(t) ==
    /\ t # <<>>
    /\ IsPushOpcode(t[1])
    /\ LET n == LengthFieldSize(t[1])
           there == Len(t) - 1 - n
       IN  \/ there < 0
           \/ n = 0 /\ t[1] > there
           \/ n > 0 /\ \E i \in 4..(n + 1) : t[i] # 0
           \/ n = 1 /\ t[2] > there
           \/ n > 1 /\ t[2] + 256 * t[3] > there

\* C4: push reassembly.  For a script 0x6a 0x5d, complete pushes (direct,
\* PUSHDATA1, PUSHDATA2, PUSHDATA4), then nothing or another opcode and any
\* bytes: the scan does not fail, and the payload it collects and hands to
\* parse_runestone_data is the pushed bytes in their order, with nothing of
\* the other opcode or of the bytes behind it.
C4_PushReassembly ==
    (IsHexOfBytes(input) /\ input.head = <<106, 93>> /\ TailStops(input.tail)) =>
        /\ result # Err("push")
        /\ pc \in {"parse", "loop", "done"} => runestone_data = Pushed(input)
        /\ pc \in {"loop", "done"} => dec_data = Pushed(input)

\* the parser has been handed the payload of a direct push and a PUSHDATA4
\* that were followed by another opcode and push-like bytes
C4_Witness ==
    /\ pc = "loop"
    /\ IsHexOfBytes(input)
    /\ input.head = <<106, 93>>
    /\ input.ops = <<[op |-> "direct", data |-> <<2, 7>>], [op |-> "pushdata4", data |-> <<2, 0>>]>>
    /\ input.tail = <<79, 2, 7, 7>>
    /\ dec_data = <<2, 7, 2, 0>>

\* C5: truncated push.  For a script 0x6a 0x5d, complete pushes, then a push
\* operation that lacks its length field or declares more bytes than remain:
\* parse_script_hex returns Err, and parse_runestone_data is never called.
C5_TruncatedPush ==
    (IsHexOfBytes(input) /\ input.head = <<106, 93>> /\ TailTruncated(input.tail)) =>
        /\ pc \in {"script", "scan", "done"}
        /\ pc = "done" => result = Err("push")

\* Err has been returned for a complete push followed by a PUSHDATA2 that
\* declares 256 bytes and has one
C5_Witness ==
    /\ pc = "done"
    /\ result = Err("push")
    /\ IsHexOfBytes(input)
    /\ input.head = <<106, 93>>
    /\ Len(input.ops) >= 1
    /\ input.tail = <<77, 0, 1, 5>>

----------------------------------------------------------------------------
(* runes_builder.rs: rune names.  A char is given by a string: a letter,    *)
(* "." and "bullet" for the two spacers, anything else for another char.    *)

UpperCase == <<"A", "B", "C", "D", "E", "F", "G", "H", "I", "J", "K", "L", "M",
               "N", "O", "P", "Q", "R", "S", "T", "U", "V", "W", "X", "Y", "Z">>
LowerCase == <<"a", "b", "c", "d", "e", "f", "g", "h", "i", "j", "k", "l", "m",
               "n", "o", "p", "q", "r", "s", "t", "u", "v", "w", "x", "y", "z">>

IndexIn(alphabet, ch) == CHOOSE i \in 1..Len(alphabet) : alphabet[i] = ch

\* the arms of the match at lines 72-77 that give a value
IsRetained(ch) ==
    \/ \E i \in 1..26 : UpperCase[i] = ch
    \/ \E i \in 1..26 : LowerCase[i] = ch
    \/ ch \in {"bullet", "."}

CharValue(ch) ==
    IF \E i \in 1..26 : UpperCase[i] = ch THEN IndexIn(UpperCase, ch)
    ELSE IF \E i \in 1..26 : LowerCase[i] = ch THEN IndexIn(LowerCase, ch)
    ELSE 0

RECURSIVE BitOr(_, _, _)
BitOr(a, b, n) ==
    IF n = 0 THEN 0
    ELSE (IF a % 2 = 1 \/ b % 2 = 1 THEN 1 ELSE 0) + 2 * BitOr(a \div 2, b \div 2, n - 1)

\* `result |= value << shift` for a value below 256 and a shift that is a
\* multiple of 8.  Without overflow checks `<<` takes the shift modulo 128
\* (wrapping_shl); with them a shift of 128 or more panics, see NamePanics.
OrShifted(res, value, shift) ==
    [res EXCEPT ![(shift % 128) \div 8 + 1] = BitOr(@, value, 8)]

RECURSIVE NameLoop(_, _, _, _)
NameLoop(name, i, res, shift) ==
    IF i > Len(name) THEN res
    ELSE IF ~IsRetained(name[i]) THEN NameLoop(name, i + 1, res, shift)
    ELSE NameLoop(name, i + 1, OrShifted(res, CharValue(name[i]), shift), shift + 8)

\* what the function returns when it returns
rune_name_to_integer(name) == NameLoop(name, 1, Zeros(16), 0)

\* `shift` when the loop is at name[i]: 8 for each retained char before it
ShiftAt(name, i) == 8 * Cardinality({j \in 1..(i - 1) : IsRetained(name[j])})

\* `value << shift` is evaluated with a shift of 128 or more: the panic
\* "attempt to shift left with overflow" of a build with overflow checks
NamePanics(name) ==
    \E i \in 1..Len(name) : IsRetained(name[i]) /\ ShiftAt(name, i) >= 128

----------------------------------------------------------------------------
(* RunesBuilder *)

\* a push that loses the tag
PushUntagged(fs, tag, value) == Append(fs, <<U128(0), value>>)

\* self.fields.push((tag, value))
Push(fs, tag, value) == Append(fs, <<U128(tag), value>>)

\* `(block as u128) << 32 | (tx as u128)` on the 8 bytes of block and the 4 of tx
MintValue(block, tx) == FromLe(tx \o block)

\* fields.sort_by_key(|f| f.0), a stable sort: x goes behind the elements
\* whose tag is not greater than its own
InsertByTag(sorted, x) ==
    LET k == Cardinality({i \in 1..Len(sorted) : ~U128Less(x[1], sorted[i][1])})
    IN  SubSeq(sorted, 1, k) \o <<x>> \o SubSeq(sorted, k + 1, Len(sorted))

\* the fields left in the order they were pushed
Unsorted(fs) == fs

RECURSIVE SortByTag(_)
SortByTag(fs) ==
    IF fs = <<>> THEN <<>>
    ELSE InsertByTag(SortByTag(SubSeq(fs, 1, Len(fs) - 1)), fs[Len(fs)])

\* lines 191-203: the tag and the value of each field
EncodeFields(fs) ==
    Flatten([i \in 1..Len(fs) |-> encode_varint(fs[i][1]) \o encode_varint(fs[i][2])])

\* lines 182-212: `data`
Payload(fs) == EncodeFields(SortByTag(fs)) \o encode_varint(U128(0))

\* PushSlice always using OP_PUSHDATA1 below 256 bytes
PushSliceNotMinimal(data) ==
    LET n == Len(data)
    IN  IF n < 256 THEN <<OP_PUSHDATA1, n>> \o data
        ELSE <<OP_PUSHDATA2, n % 256, n \div 256>> \o data

\* Builder::push_slice: the shortest push of the bytes
PushSlice(data) ==
    LET n == Len(data)
    IN  IF n < 76 THEN <<n>> \o data
        ELSE IF n < 256 THEN <<OP_PUSHDATA1, n>> \o data
        ELSE IF n < 65536 THEN <<OP_PUSHDATA2, n % 256, n \div 256>> \o data
        ELSE <<OP_PUSHDATA4, n % 256, (n \div 256) % 256, (n \div 65536) % 256, n \div 16777216>>
             \o data

\* lines 214-222
Script(data) == <<OP_RETURN, OP_PUSHNUM_13>> \o PushSlice(data)

OkScript(script, data) == [kind |-> "OkScript", script |-> script, data |-> data]

MaxFields == 2

\* 1000000 and 2^32
U128Args == {U128(1000000), FromLe(<<0, 0, 0, 0, 1>>)}
\* 2^128 - 1 and a value above 2^64
WideArgs == {FromLe(Fill(255, 16)), FromLe(Zeros(8) \o <<1, 1, 255>>)}
U32Args == {<<0, 0, 0, 0>>, <<255, 255, 255, 255>>}
U8Args == {8, 255}
CharArgs == {36, 8377}
MintArgs == {<<<<0, 209, 12, 0, 0, 0, 0, 0>>, <<1, 0, 0, 0>>>>,
             <<Fill(255, 8), Fill(255, 4)>>}
NameArgs ==
    {<<"T", "E", "S", "T">>,
     <<"a", "1", ".", "b">>,
     <<"S", "A", "T", "O", "S", "H", "I", "bullet", "N", "A", "K", "A", "M", "O", "T", "O">>}

\* a with_* method: the builder with one more field
With(tag, value) ==
    /\ pc = "builder"
    /\ Len(builder) < MaxFields
    /\ builder' = Push(builder, tag, value)
    /\ UNCHANGED <<tree, proof, input, pc, bytes, pos, runestone_data, dec_data, dec_pos, fields, ret, result>>

with_flags == \E flags \in U128Args : With(2, flags)
with_rune == \E rune_name \in NameArgs : With(4, rune_name_to_integer(rune_name))
with_spacers == \E spacers \in WideArgs : With(5, spacers)
with_symbol == \E symbol \in CharArgs : With(6, U128(symbol))
with_premine == \E premine \in U128Args : With(7, premine)
with_pointer == \E pointer \in U32Args : With(8, FromLe(pointer))
with_terms == \E terms \in WideArgs : With(9, terms)
with_turbo == With(10, U128(0))
with_cap == \E cap \in U128Args : With(11, cap)
with_divisibility == \E divisibility \in U8Args : With(12, U128(divisibility))
with_amount == \E amount \in WideArgs : With(1, amount)
with_mint == \E m \in MintArgs : With(3, MintValue(m[1], m[2]))

\* build(self)
Build ==
    /\ pc = "builder"
    /\ result' = OkScript(Script(Payload(builder)), Payload(builder))
    /\ pc' = "built"
    /\ UNCHANGED <<tree, proof, input, builder, bytes, pos, runestone_data, dec_data, dec_pos, fields, ret>>

\* RunesParser::parse_script_hex(&script.to_hex_string()) on the built script
ParseBuilt ==
    /\ pc = "built"
    /\ input' = [kind |-> "built", hex |-> HexEncode(result.script)]
    /\ pc' = "script"
    /\ UNCHANGED <<tree, proof, builder, bytes, pos, runestone_data, dec_data, dec_pos, fields, ret, result>>

InitBuild ==
    /\ input = [kind |-> "builder", hex |-> <<>>]
    /\ pc = "builder"
    /\ IdleBuilder /\ IdleScript /\ IdleDecoder
    /\ result = NoResult
    /\ IdleMerkle

NextBuild ==
    \/ with_flags \/ with_rune \/ with_spacers \/ with_symbol \/ with_premine
    \/ with_pointer \/ with_terms \/ with_turbo \/ with_cap \/ with_divisibility
    \/ with_amount \/ with_mint
    \/ Build \/ ParseBuilt
    \/ ScanStart \/ ScanDirectPush \/ ScanEnd
    \/ ParseStart \/ ParseTagErr \/ ParseBody \/ ParseValueErr \/ ParsePair

SpecBuild == InitBuild /\ [][NextBuild]_vars

\* the (tag, value) pairs the builder was given
Given == {<<builder[i][1], builder[i][2]>> : i \in 1..Len(builder)}

DistinctTags == \A i, j \in 1..Len(builder) : builder[i][1] = builder[j][1] => i = j

\* C2 (as claimed): tag/value round trip.  For a builder filled by with_*
\* calls with pairwise distinct tags, parse_script_hex of the hex of build()
\* returns Ok(Some(r)) with r.fields exactly the pairs given to the builder.
C2_RoundTrip ==
    (pc = "done" /\ DistinctTags) => result = OkSome(Given)

Orders(n) == {p \in [1..n -> 1..n] : \A i, j \in 1..n : p[i] = p[j] => i = j}

\* the number of a tag below 256
TagNumber(t) == t[1]

----------------------------------------------------------------------------
(* build() on builders of many fields: the script wrapper *)

MaxRepeat == 15

\* with_amount(u128::MAX): a field of 18 payload bytes
WideField == <<U128(1), FromLe(Fill(255, 16))>>

\* with_turbo(), with_divisibility(255), with_flags(1_000_000): fields of
\* 2, 4 and 6 payload bytes
SmallFields == {<<U128(10), U128(0)>>, <<U128(12), U128(255)>>, <<U128(2), U128(1000000)>>}

\* the fields of a builder after n calls of with_amount(u128::MAX) and up to
\* two calls more
WrapBuilders ==
    {Fill(WideField, n) \o t : n \in 0..MaxRepeat, t \in SeqsUpTo(SmallFields, 2)}

InitWrap ==
    /\ builder \in WrapBuilders
    /\ input = [kind |-> "builder", hex |-> <<>>]
    /\ pc = "builder"
    /\ IdleScript /\ IdleDecoder
    /\ result = NoResult
    /\ IdleMerkle

NextWrap == Build

SpecWrap == InitWrap /\ [][NextWrap]_vars

----------------------------------------------------------------------------
(* rune_name_to_integer called on its own.  The build decides what a shift  *)
(* of 128 bits or more does: with overflow checks (the dev and test         *)
(* profiles) it panics, without them (the release profile) it wraps.        *)

MaxName == 17

NameChars == {"A", "Z", "b", ".", "1"}

\* short names over NameChars, the names of the builder, and names of
\* letters up to MaxName long, whole or with a char in front
SampleNames ==
    SeqsUpTo(NameChars, 3) \cup NameArgs
    \cup {front \o Fill(c, n) : front \in {<<>>, <<"B">>, <<"1">>, <<".">>},
                               c \in {"A", "z"}, n \in 14..MaxName}

Panic == [kind |-> "Panic"]
Name(value) == [kind |-> "Name", value |-> value]

InitName ==
    /\ input \in {[kind |-> "name", name |-> n, overflow_checks |-> c] :
                     n \in SampleNames, c \in BOOLEAN}
    /\ pc = "name"
    /\ IdleBuilder /\ IdleScript /\ IdleDecoder
    /\ result = NoResult
    /\ IdleMerkle

\* rune_name_to_integer(name) returns
NameReturns ==
    /\ pc = "name"
    /\ ~(input.overflow_checks /\ NamePanics(input.name))
    /\ result' = Name(rune_name_to_integer(input.name))
    /\ pc' = "named"
    /\ UNCHANGED <<tree, proof, input, builder, bytes, pos, runestone_data, dec_data, dec_pos, fields, ret>>

\* rune_name_to_integer(name) panics at the shift
NameOverflow ==
    /\ pc = "name"
    /\ input.overflow_checks /\ NamePanics(input.name)
    /\ result' = Panic
    /\ pc' = "named"
    /\ UNCHANGED <<tree, proof, input, builder, bytes, pos, runestone_data, dec_data, dec_pos, fields, ret>>

NextName == NameReturns \/ NameOverflow

SpecName == InitName /\ [][NextName]_vars

\* the number of a letter, 0 for a spacer
LetterNumber(ch) ==
    IF \E k \in 1..26 : UpperCase[k] = ch \/ LowerCase[k] = ch
    THEN CHOOSE k \in 1..26 : UpperCase[k] = ch \/ LowerCase[k] = ch
    ELSE 0

IsLetterOrSpacer(ch) ==
    \/ \E k \in 1..26 : UpperCase[k] = ch \/ LowerCase[k] = ch
    \/ ch \in {".", "bullet"}

\* the chars of a name that are letters or spacers, in order
Kept(name) == SelectSeq(name, IsLetterOrSpacer)

\* the name's lowercase form
Lowered(name) ==
    [i \in 1..Len(name) |->
        IF \E k \in 1..26 : UpperCase[k] = name[i]
        THEN LowerCase[CHOOSE k \in 1..26 : UpperCase[k] = name[i]]
        ELSE name[i]]

\* C12 (as claimed): rune name encoding.  rune_name_to_integer returns an
\* integer whose bits [8i, 8i+8) hold the number of the i-th retained char
\* (1..26 for a letter of either case, 0 for a spacer; other chars take no
\* position) and whose other bits are 0; "A" gives 1, "Z" gives 26, "AB"
\* gives 0x0201, and a name and its lowercase form give the same integer.
C12_NameEncoding ==
    pc = "named" =>
        /\ result.kind = "Name"
        /\ LET kept == Kept(input.name)
           IN  \A i \in 1..16 :
                   result.value[i] = IF i <= Len(kept) THEN LetterNumber(kept[i]) ELSE 0
        /\ input.name = <<"A">> => result.value = U128(1)
        /\ input.name = <<"Z">> => result.value = U128(26)
        /\ input.name = <<"A", "b">> => result.value = U128(513)
        /\ result.value = rune_name_to_integer(Lowered(input.name))

\* the same of the names that have at most 16 letters and spacers only
ShortNameEncoding ==
    Len(Kept(input.name)) <= 16 => C12_NameEncoding

----------------------------------------------------------------------------
(* Mint ids *)

\* v >> 32 and v & 0xffffffff of a u128 v, as bytes
MintBlock(v) == SubSeq(v, 5, 16)
MintTx(v) == SubSeq(v, 1, 4)

\* the builder holds the field of one with_mint call, and no other of tag 3
MintGiven(m) ==
    /\ \E i \in 1..Len(builder) :
           builder[i] = <<U128(3), MintValue(m[1], m[2])>>
    /\ Cardinality({i \in 1..Len(builder) : builder[i][1] = U128(3)}) = 1

\* C13 (as claimed): mint id round trip.  with_mint(block, tx) stores under
\* tag 3 a value v with v >> 32 = block and v & 0xffffffff = tx, and after
\* build() and parse_script_hex the value decoded for tag 3 splits into the
\* same (block, tx).
C13_MintRoundTrip ==
    \A m \in MintArgs :
        MintGiven(m) =>
            /\ \E i \in 1..Len(builder) :
                   /\ builder[i][1] = U128(3)
                   /\ MintBlock(builder[i][2]) = m[1] \o Zeros(4)
                   /\ MintTx(builder[i][2]) = m[2]
            /\ pc = "done" =>
                   /\ result.kind = "OkSome"
                   /\ \E f \in result.fields :
                          /\ f[1] = U128(3)
                          /\ MintBlock(f[2]) = m[1] \o Zeros(4)
                          /\ MintTx(f[2]) = m[2]
                   /\ \A f \in result.fields :
                          f[1] = U128(3) => MintBlock(f[2]) = m[1] \o Zeros(4) /\ MintTx(f[2]) = m[2]

\* the same of the builders whose only field is a mint of a block below 2^32
SmallMintRoundTrip ==
    (Len(builder) = 1 /\ \E m \in MintArgs : MintGiven(m) /\ FitsIn(FromLe(m[1]), 4))
        => C13_MintRoundTrip

----------------------------------------------------------------------------
(* parse_script_hex called on a script whose payload has integers behind    *)
(* the BODY tag.  The payload is given as what it is made of: tag/value     *)
(* pairs, the BODY tag, groups of four integers, up to three integers more, *)
(* and what is left over behind them.  All integers are below 253 and take  *)
(* one byte each.                                                           *)

MaxGroups == 3

\* (block_delta, tx_or_delta, amount, output)
SampleGroups ==
    {<<5, 1, 10, 0>>, <<0, 2, 20, 1>>, <<2, 0, 5, 0>>, <<0, 5, 1, 0>>, <<0, 0, 7, 1>>}

SampleRests == {<<>>, <<1>>, <<2, 0, 5>>}

SamplePairs == {<<>>, <<2, 7>>}

\* the bytes of the payload
EdictPayload(inp) == inp.pairs \o <<0>> \o Flatten(inp.groups) \o inp.rest \o inp.cut

EdictInputs ==
    LET Parts == {[pairs |-> f, groups |-> g, rest |-> r, cut |-> c] :
                     f \in SamplePairs, g \in SeqsUpTo(SampleGroups, MaxGroups),
                     r \in SampleRests, c \in {<<>>, <<253>>}}
    IN  {[kind |-> "edicts", pairs |-> p.pairs, groups |-> p.groups, rest |-> p.rest,
          cut |-> p.cut, hex |-> HexEncode(Script(EdictPayload(p)))] : p \in Parts}

InitEdict ==
    /\ input \in EdictInputs
    /\ pc = "script"
    /\ IdleBuilder /\ IdleScript /\ IdleDecoder
    /\ result = NoResult
    /\ IdleMerkle

NextEdict ==
    \/ ScanStart \/ ScanDirectPush \/ ScanEnd
    \/ ParseStart \/ ParsePair \/ ParseBody

SpecEdict == InitEdict /\ [][NextEdict]_vars

\* the edicts a Runestone lists: the struct has the member `fields` and no
\* other
RunestoneEdicts(r) == <<>>

Edict(block, tx, amount, output) ==
    [id |-> [block |-> block, tx |-> tx], amount |-> amount, output |-> output]

\* the edicts that groups of four integers stand for, against the running
\* base (base_block, base_tx)
RECURSIVE DeltaDecode(_, _, _)
DeltaDecode(groups, base_block, base_tx) ==
    IF groups = <<>> THEN <<>>
    ELSE LET g == Head(groups)
             block == IF g[1] = 0 THEN base_block ELSE base_block + g[1]
             tx == IF g[1] = 0 THEN base_tx + g[2] ELSE g[2]
         IN  <<Edict(block, tx, g[3], g[4])>> \o DeltaDecode(Tail(groups), block, tx)

\* the groups of four integers an edict list is written as, against the
\* running base
RECURSIVE DeltaEncode(_, _, _)
DeltaEncode(edicts, base_block, base_tx) ==
    IF edicts = <<>> THEN <<>>
    ELSE LET e == Head(edicts)
             g == IF e.id.block = base_block
                  THEN <<0, e.id.tx - base_tx, e.amount, e.output>>
                  ELSE <<e.id.block - base_block, e.id.tx, e.amount, e.output>>
         IN  <<g>> \o DeltaEncode(Tail(edicts), e.id.block, e.id.tx)

\* block = 0 with tx # 0
InvalidId(id) == id.block = 0 /\ id.tx # 0

HasInvalidId(edicts) == \E i \in 1..Len(edicts) : InvalidId(edicts[i].id)

\* the position right behind the last whole group of the payload
GroupsEnd(inp) == Len(inp.pairs) + 1 + 4 * Len(inp.groups)

\* C14 (as claimed): edict delta decoding.  The integers behind the BODY tag
\* are consumed in groups of four against a running base that starts at
\* (0, 0); the decoded Runestone lists the edicts these groups stand for, in
\* their order, and a trailing group of fewer than four integers is
\* discarded without error.
C14_EdictDecoding ==
    LET edicts == DeltaDecode(input.groups, 0, 0)
    IN  (pc = "done" /\ input.cut = <<>> /\ ~HasInvalidId(edicts)) =>
            /\ result.kind = "OkSome"
            /\ RunestoneEdicts(result) = edicts
            /\ dec_pos >= GroupsEnd(input)

\* C15 (as claimed): invalid RuneId rejection.  Decoding a payload whose
\* edict stream has a group that resolves to block = 0 with tx # 0 fails
\* with an error.
C15_InvalidRuneId ==
    (pc = "done" /\ HasInvalidId(DeltaDecode(input.groups, 0, 0))) =>
        result.kind = "Err"

\* the ids of the list are in ascending order
OrderedById(edicts) ==
    \A i \in 1..(Len(edicts) - 1) :
        \/ edicts[i].id.block < edicts[i + 1].id.block
        \/ edicts[i].id.block = edicts[i + 1].id.block /\ edicts[i].id.tx <= edicts[i + 1].id.tx

\* C16 (as claimed): edict delta round trip.  For an edict list ordered by
\* id whose ids satisfy block = 0 => tx = 0, the script that carries the
\* list in its delta form decodes to a Runestone that lists the identical
\* edicts in the identical order.
C16_EdictRoundTrip ==
    \A edicts \in {DeltaDecode(input.groups, 0, 0)} :
        ( /\ pc = "done"
          /\ input.pairs = <<>> /\ input.rest = <<>> /\ input.cut = <<>>
          /\ OrderedById(edicts) /\ ~HasInvalidId(edicts)
          /\ input.groups = DeltaEncode(edicts, 0, 0) ) =>
            /\ result.kind = "OkSome"
            /\ RunestoneEdicts(result) = edicts

----------------------------------------------------------------------------
(* Two builders *)

\* the fields of a builder that was given the pairs of fs in the order p
Reordered(fs, p) == [i \in 1..Len(fs) |-> fs[p[i]]]

\* the order p keeps the pairs of equal tag of fs in their relative order
KeepsEqualTags(fs, p) ==
    \A i, j \in 1..Len(fs) :
        (i < j /\ fs[p[i]][1] = fs[p[j]][1]) => p[i] < p[j]

----------------------------------------------------------------------------
(* Well-formed scripts *)

\* the integer encoded at position p of d is 0
ZeroAt(d, p) == \A i \in 2..EncodingLength(d[p + 1]) : d[p + i] = 0

\* from position p on, d is a stream of whole VarInts that reaches a 0 in
\* tag position or ends in front of a tag
RECURSIVE StreamOk(_, _, _)
StreamOk(d, p, at_tag) ==
    IF p >= Len(d) THEN at_tag
    ELSE IF ~WholeAt(d, p) THEN FALSE
    ELSE IF at_tag /\ d[p + 1] \in {0, 253, 254, 255} /\ ZeroAt(d, p) THEN TRUE
    ELSE StreamOk(d, p + EncodingLength(d[p + 1]), ~at_tag)

\* a script of the prefix, complete pushes and nothing or another opcode
\* behind them, with a well-formed payload
WellFormed(inp) ==
    /\ IsHexOfBytes(inp)
    /\ inp.head = <<106, 93>>
    /\ TailStops(inp.tail)
    /\ StreamOk(Pushed(inp), 0, TRUE)

\* C23: well-formed scripts decode to a Runestone.  For a script with the
\* 0x6a 0x5d prefix whose pushes are all complete and whose payload's
\* tag/value stream reaches a 0 tag or ends on a pair boundary,
\* parse_script_hex returns Ok(Some(_)); with an empty payload the field map
\* is empty.
C23_WellFormedIsSome ==
    (pc = "done" /\ WellFormed(input)) =>
        /\ result.kind = "OkSome"
        /\ Pushed(input) = <<>> => result.fields = {}

\* Ok(Some) with an empty map has been returned for the prefix followed
\* directly by an opcode that is no push
C23_Witness ==
    /\ pc = "done"
    /\ WellFormed(input)
    /\ input.ops = <<>> /\ input.tail = <<0, 1, 9>>
    /\ result = OkSome({})

----------------------------------------------------------------------------
(* examples/merkle_tree: ScriptTree::build, generate_proof and              *)
(* MerkleProof::verify.  SHA-256 is taken to be free of collisions: a hash  *)
(* value is given as what was hashed.                                       *)

\* Sha256 of the data
hash_single(data) == [single |-> data]

\* Sha256 of the 64 bytes left, right
hash_pair(left, right) == [left |-> left, right |-> right]

Leaf(data) == [kind |-> "Leaf", data |-> data]
Branch(left, right) == [kind |-> "Branch", left |-> left, right |-> right]

\* MerkleNode::hash
RECURSIVE Hash(_)
Hash(node) ==
    IF node.kind = "Leaf" THEN hash_single(node.data)
    ELSE hash_pair(Hash(node.left), Hash(node.right))

TaprootScript(data) == [witness_version |-> 192, script_data |-> data, leaf_version |-> 192]

\* main.rs lines 57-70: the next level, pairs of neighbours and an odd last
\* node as it is
NewLevel(leaves) ==
    [k \in 1..((Len(leaves) + 1) \div 2) |->
        IF 2 * k <= Len(leaves) THEN Branch(leaves[2 * k - 1], leaves[2 * k])
        ELSE leaves[2 * k - 1]]

\* the loop `while leaves.len() > 1`
RECURSIVE Levels(_)
Levels(leaves) == IF Len(leaves) > 1 THEN Levels(NewLevel(leaves)) ELSE leaves

\* ScriptTree::build(scripts)
ScriptTree(scripts) ==
    LET top == Levels([k \in 1..Len(scripts) |-> Leaf(scripts[k].script_data)])
    IN  [kind |-> "ScriptTree",
         root |-> IF top = <<>> THEN Leaf(<<>>) ELSE top[1],
         leaves |-> scripts]

\* the loop of left_child_size
RECURSIVE Doubled(_, _)
Doubled(size, total_leaves) ==
    IF size * 2 < total_leaves THEN Doubled(size * 2, total_leaves) ELSE size

left_child_size(total_leaves) ==
    IF total_leaves <= 1 THEN total_leaves ELSE Doubled(1, total_leaves)

\* collect_proof_path: what it returns and the path it leaves
RECURSIVE collect_proof_path(_, _, _, _)
collect_proof_path(node, target_index, total_leaves, path) ==
    IF node.kind = "Leaf" THEN [found |-> target_index = 0, path |-> path]
    ELSE LET left_size == left_child_size(total_leaves)
         IN  IF target_index < left_size
             THEN LET r == collect_proof_path(node.left, target_index, left_size, path)
                  IN  IF r.found
                      THEN [found |-> TRUE, path |-> Append(r.path, <<Hash(node.right), TRUE>>)]
                      ELSE [found |-> FALSE, path |-> r.path]
             ELSE LET right_size == total_leaves - left_size
                      r == collect_proof_path(node.right, target_index - left_size,
                                              right_size, path)
                  IN  IF r.found
                      THEN [found |-> TRUE, path |-> Append(r.path, <<Hash(node.left), FALSE>>)]
                      ELSE [found |-> FALSE, path |-> r.path]

None == [kind |-> "None"]
Some(leaf, path) == [kind |-> "Some", leaf |-> leaf, path |-> path]

\* generate_proof(tree, leaf_index)
generate_proof(t, leaf_index) ==
    IF leaf_index >= Len(t.leaves) THEN None
    ELSE Some(t.leaves[leaf_index + 1].script_data,
              collect_proof_path(t.root, leaf_index, Len(t.leaves), <<>>).path)

\* the loop of MerkleProof::verify from path entry k on
RECURSIVE VerifyFrom(_, _, _)
VerifyFrom(path, k, current) ==
    IF k > Len(path) THEN current
    ELSE LET sibling_hash == path[k][1]
             is_right == path[k][2]
         IN  VerifyFrom(path, k + 1,
                        IF is_right THEN hash_pair(sibling_hash, current)
                        ELSE hash_pair(current, sibling_hash))

\* proof.verify(root_hash)
verify(p, root_hash) == VerifyFrom(p.path, 1, hash_single(p.leaf)) = root_hash

Verified(valid) == [kind |-> "Verified", valid |-> valid]

MaxLeaves == 4

SampleScripts == {TaprootScript(<<1>>), TaprootScript(<<2>>), TaprootScript(<<1, 2>>)}

InitMerkle ==
    /\ input \in {[kind |-> "merkle", scripts |-> ss, leaf_index |-> i] :
                     ss \in SeqsUpTo(SampleScripts, MaxLeaves), i \in 0..(MaxLeaves + 1)}
    /\ pc = "merkle"
    /\ IdleBuilder /\ IdleScript /\ IdleDecoder
    /\ result = NoResult
    /\ IdleMerkle

\* let tree = ScriptTree::build(scripts)
TreeBuild ==
    /\ pc = "merkle"
    /\ tree' = ScriptTree(input.scripts)
    /\ pc' = "tree"
    /\ UNCHANGED <<proof, input, builder, bytes, pos, runestone_data, dec_data, dec_pos,
                   fields, ret, result>>

\* generate_proof(&tree, leaf_index) returns None
GenerateNone ==
    /\ pc = "tree"
    /\ generate_proof(tree, input.leaf_index) = None
    /\ proof' = None
    /\ pc' = "done"
    /\ UNCHANGED <<tree, input, builder, bytes, pos, runestone_data, dec_data, dec_pos,
                   fields, ret, result>>

\* generate_proof(&tree, leaf_index) returns Some(proof)
GenerateSome ==
    /\ pc = "tree"
    /\ generate_proof(tree, input.leaf_index) # None
    /\ proof' = generate_proof(tree, input.leaf_index)
    /\ pc' = "proof"
    /\ UNCHANGED <<tree, input, builder, bytes, pos, runestone_data, dec_data, dec_pos,
                   fields, ret, result>>

\* proof.verify(&tree.root_hash())
Verify ==
    /\ pc = "proof"
    /\ result' = Verified(verify(proof, Hash(tree.root)))
    /\ pc' = "done"
    /\ UNCHANGED <<tree, proof, input, builder, bytes, pos, runestone_data, dec_data,
                   dec_pos, fields, ret>>

NextMerkle == TreeBuild \/ GenerateNone \/ GenerateSome \/ Verify

SpecMerkle == InitMerkle /\ [][NextMerkle]_vars

\* the flags of a proof for node idx of a level of count nodes, from the leaf
\* level up: a node with an odd index is the right child of its pair, and the
\* last node of a level of odd length has no sibling and goes up as it is
RECURSIVE RightChildFlags(_, _)
RightChildFlags(idx, count) ==
    IF count <= 1 THEN <<>>
    ELSE IF idx = count - 1 /\ count % 2 = 1
         THEN RightChildFlags(idx \div 2, (count + 1) \div 2)
         ELSE <<idx % 2 = 1>> \o RightChildFlags(idx \div 2, (count + 1) \div 2)

FlagsOf(path) == [k \in 1..Len(path) |-> path[k][2]]

\* C24: for a tree built from n >= 1 scripts, generate_proof(tree, i) is None
\* exactly when i >= n; for i < n it is Some(proof) with proof.leaf equal to
\* script i, proof.verify(tree.root_hash()) is true, and each flag of the path
\* is true exactly when the node being proven is the right child.
C24_MerkleProofs ==
    (pc = "done" /\ input.kind = "merkle" /\ Len(input.scripts) >= 1) =>
        LET n == Len(input.scripts)
            i == input.leaf_index
        IN  /\ (proof.kind = "None") <=> (i >= n)
            /\ i < n =>
                /\ proof.kind = "Some"
                /\ proof.leaf = input.scripts[i + 1].script_data
                /\ result = Verified(TRUE)
                /\ FlagsOf(proof.path) = RightChildFlags(i, n)

----------------------------------------------------------------------------
(* The tag constants of rune_decode.rs and the names tag_name gives them.   *)

FLAGS == 2
RUNE == 4
SPACERS == 5
SYMBOL == 6
PREMINE == 7
AMOUNT == 1
CAP == 11
MINT == 3
POINTER == 8
DIVISIBILITY == 12
TERMS == 9
TURBO == 10

\* RunesParser::tag_name(tag), tag as the number it holds
tag_name(tag) ==
    CASE tag = 0 -> "BODY"
      [] tag = 1 -> "AMOUNT"
      [] tag = 2 -> "FLAGS"
      [] tag = 3 -> "MINT"
      [] tag = 4 -> "RUNE"
      [] tag = 5 -> "SPACERS"
      [] tag = 6 -> "SYMBOL"
      [] tag = 7 -> "PREMINE"
      [] tag = 8 -> "POINTER"
      [] tag = 9 -> "TERMS"
      [] tag = 10 -> "TURBO"
      [] tag = 11 -> "CAP"
      [] tag = 12 -> "DIVISIBILITY"
      [] OTHER -> "TAG_"

\* the tag of the field pushed last
PushedTag == builder[Len(builder)][1]

\* the builder pushed the tag that the parser defines as `constant` and names `name`
Pushes(constant, name) ==
    /\ PushedTag' = U128(constant)
    /\ tag_name(constant) = name
    /\ PushedTag' # BODY

\* C25: every field-setting method of RunesBuilder pushes the tag number that
\* rune_decode.rs defines and names for the same field, and none pushes tag 0.
C25_TagAgreement ==
    [][/\ with_flags => Pushes(FLAGS, "FLAGS")
       /\ with_rune => Pushes(RUNE, "RUNE")
       /\ with_spacers => Pushes(SPACERS, "SPACERS")
       /\ with_symbol => Pushes(SYMBOL, "SYMBOL")
       /\ with_premine => Pushes(PREMINE, "PREMINE")
       /\ with_pointer => Pushes(POINTER, "POINTER")
       /\ with_terms => Pushes(TERMS, "TERMS")
       /\ with_turbo => Pushes(TURBO, "TURBO")
       /\ with_cap => Pushes(CAP, "CAP")
       /\ with_divisibility => Pushes(DIVISIBILITY, "DIVISIBILITY")
       /\ with_amount => Pushes(AMOUNT, "AMOUNT")
       /\ with_mint => Pushes(MINT, "MINT")]_vars

\* a builder after with_amount and with_divisibility
C25_Witness ==
    /\ pc = "builder"
    /\ Len(builder) = 2
    /\ builder[1][1] = U128(AMOUNT)
    /\ builder[2][1] = U128(DIVISIBILITY)

----------------------------------------------------------------------------
(* The reads of the push scan and its termination.  usize has 64 bits, so   *)
(* that pos + len does not overflow for a length field of at most 32 bits.  *)

\* the slice bytes[pos..pos + len] of a push arm, taken behind its length test
SliceReads(b, p, len) ==
    IF PushPastEnd(b, p, len) THEN {} ELSE p..(p + len - 1)

\* the reads of an arm OP_PUSHDATA1/2/4, entered with pos behind the opcode
LengthReads(b, p, n) ==
    IF LengthFieldShort(b, p, n) THEN {}
    ELSE (p..(p + n - 1)) \cup SliceReads(b, p + n, PushLength(SubSeq(b, p + 1, p + n)))

\* the indices (from 0) of `bytes` that the iteration entered with pos = p reads
ScanReads(b, p) ==
    LET op == b[p + 1]
        p1 == p + 1
    IN  {p} \cup
        (IF op = OP_PUSHDATA1 THEN LengthReads(b, p1, 1)
         ELSE IF op = OP_PUSHDATA2 THEN LengthReads(b, p1, 2)
         ELSE IF op = OP_PUSHDATA4 THEN LengthReads(b, p1, 4)
         ELSE IF op \in 1..75 THEN SliceReads(b, p1, op)
         ELSE {})

\* parse_script_hex is called and runs to its end
FairScript == SpecScript /\ WF_vars(NextScript)

\* the scan is at the head of its loop
AtScan == pc = "scan"

\* every index read lies inside the script, and so does pos
ScanInBounds ==
    AtScan =>
        /\ 0 <= pos /\ pos <= Len(bytes)
        /\ pos < Len(bytes) => \A i \in ScanReads(bytes, pos) : 0 <= i /\ i < Len(bytes)

\* an iteration of the loop leaves pos at least 1 higher and inside the script
ScanAdvances ==
    (AtScan /\ pos < Len(bytes)) => (pos' >= pos + 1 /\ pos' <= Len(bytes))

\* C26: for every script parse_script_hex terminates; the scan reads no index
\* at or beyond the end of the script, every iteration of the scan increases
\* pos by at least 1, and every slice taken for a push lies inside the script.
C26_ScanSafety == []ScanInBounds /\ [][ScanAdvances]_vars /\ <>(pc = "done")

\* the scan has taken a push of 256 bytes that ends with the script
C26_Witness ==
    /\ AtScan
    /\ pos = Len(bytes)
    /\ Len(runestone_data) >= 256

----------------------------------------------------------------------------
(* The cursor of a VarIntDecoder: under any sequence of decode_varint calls *)
(* on a buffer, and under the tag/value loop of parse_runestone_data, which *)
(* runs to its end once it is called.                                       *)

InitCursor == InitVarInt \/ InitParse

NextCursor == NextVarInt \/ NextParse

SpecCursor == InitCursor /\ [][NextCursor]_vars /\ WF_vars(NextParse)

\* 0 <= pos <= data.len()
CursorInBounds == 0 <= dec_pos /\ dec_pos <= Len(dec_data)

\* the step is a decode_varint call on the decoder
IsDecodeCall == pc \in {"fresh", "used"} /\ pc' = "used"

\* the step is an iteration of the tag/value loop that has put a pair into the map
IsPair == pc = "loop" /\ pc' = "loop"

\* what a call, or an iteration of the loop, does to the cursor
CursorStep ==
    /\ dec_pos' >= dec_pos
    /\ (IsDecodeCall /\ ret'.ok) =>
            /\ dec_pos < Len(dec_data)
            /\ dec_pos' - dec_pos = EncodingLength(dec_data[dec_pos + 1])
    /\ (IsDecodeCall /\ is_eof(dec_data, dec_pos)) => ~ret'.ok
    /\ IsPair =>
            LET tag_len == EncodingLength(dec_data[dec_pos + 1])
            IN  dec_pos' - dec_pos = tag_len + EncodingLength(dec_data[dec_pos + tag_len + 1])

\* C27: 0 <= pos <= data.len() after any sequence of decode_varint calls and
\* pos never decreases; a successful call advances pos by 1, 3, 5 or 9 as the
\* first byte says; once is_eof() holds every later call returns Err; and the
\* tag/value loop of parse_runestone_data terminates on every payload.
C27_CursorInvariant ==
    /\ []CursorInBounds
    /\ [][CursorStep]_vars
    /\ (pc = "loop") ~> (pc = "done")

\* a decoder that has returned Ok for an encoding of 9 bytes and then Err at
\* the end of its buffer
C27_Witness ==
    /\ pc = "used"
    /\ ~ret.ok
    /\ ret.pos = 9
    /\ dec_pos = 9
    /\ is_eof(dec_data, dec_pos)

\* the loop of parse_runestone_data has returned behind two pairs
LoopHasReturned ==
    /\ pc = "done"
    /\ input.kind = "payload"
    /\ Cardinality(fields) = 2
    /\ is_eof(dec_data, dec_pos)

----------------------------------------------------------------------------
\* C28: whenever decode_varint returns Err, the position after the call is
\* the position before the call: a failed decode consumes no byte.
C28_FailedDecodeKeepsCursor ==
    (pc = "used" /\ ~ret.ok) => dec_pos = ret.pos

\* a failed call at the end of the buffer does leave the position
FailedAtEofKeepsCursor ==
    (pc = "used" /\ ~ret.ok /\ is_eof(dec_data, ret.pos)) => dec_pos = ret.pos

----------------------------------------------------------------------------
\* the name is made of letters only
LettersOnly(name) == \A i \in 1..Len(name) : LetterNumber(name[i]) >= 1

\* no retained char of the name is shifted by 128 bits or more
ShiftsBelow128(name) ==
    \A i \in 1..Len(name) : IsRetained(name[i]) => ShiftAt(name, i) < 128

\* the bits of the retained chars lie side by side: byte i of the result is
\* the number of the i-th retained char and of nothing else
NoOverlap(name, value) ==
    \A i \in 1..Len(Kept(name)) : i <= 16 /\ value[i] = LetterNumber(Kept(name)[i])

\* C29: for every name, names of more than 16 letters or spacers included,
\* rune_name_to_integer completes without a shift of 128 bits or more, the bits
\* of different retained chars do not overlap, and distinct names of letters
\* only and of equal length give distinct integers.
C29_NameWithin128Bits ==
    pc = "named" =>
        /\ result.kind = "Name"
        /\ ShiftsBelow128(input.name)
        /\ NoOverlap(input.name, result.value)
        /\ LettersOnly(input.name) =>
              \A other \in SampleNames :
                  (LettersOnly(other) /\ Len(other) = Len(input.name) /\ other # input.name)
                      => rune_name_to_integer(other) # result.value

\* the same of the names that have at most 16 letters and spacers
ShortNameWithin128Bits ==
    Len(Kept(input.name)) <= 16 => C29_NameWithin128Bits

\* two names of 17 letters that a build without overflow checks gives one integer
NamesCollide ==
    rune_name_to_integer(<<"B">> \o Fill("z", 16)) = rune_name_to_integer(Fill("z", 17))

----------------------------------------------------------------------------
(* create_runes_tx, transactions.rs, and parse_script_hex on the            *)
(* script_pubkey of its output 1                                            *)

\* let fee: u64 = 200
RunesTxFee == 200

\* the bytes handed to push_slice, lines 411-414
RuneOutputBytes ==
    <<106, 93, 40, 2, 7, 4, 234, 218, 169, 234, 146, 224, 170, 202,
      175, 133, 1, 5, 176, 9, 192, 16, 52, 0, 16, 128, 96, 128,
      128, 185, 246, 205, 191, 95, 8, 192, 160, 10, 10, 128, 200, 175,
      160, 37>>

TxErr(from) == [kind |-> "TxErr", from |-> from]
Tx(output) == [kind |-> "Tx", output |-> output]
TxOut(value, script_pubkey) == [value |-> value, script_pubkey |-> script_pubkey]

\* the outputs of the transaction: the change, then the rune output
RunesTxOutputs(utxo) ==
    <<TxOut(utxo.value - RunesTxFee, <<"internal_address">>),
      TxOut(0, PushSlice(RuneOutputBytes))>>

MaxUtxoValue == 260

\* a UTXO: its value, whether its txid parses and whether its script is hex
InitRunesTx ==
    /\ input \in {[kind |-> "utxo", value |-> v, vout |-> o, txid_ok |-> t, script_ok |-> h] :
                     v \in 0..MaxUtxoValue, o \in 0..1, t \in BOOLEAN, h \in BOOLEAN}
    /\ pc = "runes_tx"
    /\ IdleBuilder /\ IdleScript /\ IdleDecoder
    /\ result = NoResult
    /\ IdleMerkle

\* lines 382-384: the UTXO does not pay the fee
RunesTxPoor ==
    /\ pc = "runes_tx"
    /\ input.value < RunesTxFee
    /\ result' = TxErr("value")
    /\ pc' = "done"
    /\ UNCHANGED <<tree, proof, input, builder, bytes, pos, runestone_data, dec_data, dec_pos,
                   fields, ret>>

\* lines 391 and 438: the txid or the script of the UTXO does not parse
RunesTxBadUtxo ==
    /\ pc = "runes_tx"
    /\ ~(input.value < RunesTxFee)
    /\ ~input.txid_ok \/ ~input.script_ok
    /\ result' = TxErr("utxo")
    /\ pc' = "done"
    /\ UNCHANGED <<tree, proof, input, builder, bytes, pos, runestone_data, dec_data, dec_pos,
                   fields, ret>>

\* create_runes_tx returns Ok(tx)
RunesTxBuilt ==
    /\ pc = "runes_tx"
    /\ ~(input.value < RunesTxFee)
    /\ input.txid_ok /\ input.script_ok
    /\ result' = Tx(RunesTxOutputs(input))
    /\ pc' = "tx"
    /\ UNCHANGED <<tree, proof, input, builder, bytes, pos, runestone_data, dec_data, dec_pos,
                   fields, ret>>

\* RunesParser::parse_script_hex(&tx.output[1].script_pubkey.to_hex_string())
ParseRuneOutput ==
    /\ pc = "tx"
    /\ input' = [kind |-> "rune_output", hex |-> HexEncode(result.output[2].script_pubkey)]
    /\ pc' = "script"
    /\ UNCHANGED <<tree, proof, builder, bytes, pos, runestone_data, dec_data, dec_pos,
                   fields, ret, result>>

NextRunesTx == RunesTxPoor \/ RunesTxBadUtxo \/ RunesTxBuilt \/ ParseRuneOutput \/ NotRunes

SpecRunesTx == InitRunesTx /\ [][NextRunesTx]_vars

\* C30: the script_pubkey of output 1 of the transaction create_runes_tx builds
\* starts with 0x6a 0x5d, and parse_script_hex on it returns Ok(Some(_)).
C30_RuneOutputRecognised ==
    (pc = "done" /\ input.kind = "rune_output") =>
        /\ Len(bytes) >= 2
        /\ bytes[1] = OP_RETURN
        /\ bytes[2] = OP_PUSHNUM_13
        /\ result.kind = "OkSome"

\* the script is one push of the 44 bytes, and the parser returns Ok(None)
RuneOutputIsOnePush ==
    (pc = "done" /\ input.kind = "rune_output") =>
        /\ bytes = <<44>> \o RuneOutputBytes
        /\ result = OkNone

====
